---- MODULE Spec2Model ----
(***************************************************************************)
(* A model of helpers.py: the result store (save_search_result,            *)
(* save_learning_curve, save_timing_curve, load_best_search,               *)
(* load_best_learning, load_result_by_name), the cross-validation result   *)
(* reshaper (scikit_cv_result_to_df), balanced_accuracy and timing_curve.  *)
(*                                                                         *)
(* Strings are sequences of one-character strings, so that formatting,     *)
(* substring tests and Python's lexicographic string order are computed    *)
(* character by character.  Scores are integers counting ten-thousandths   *)
(* (9004 is 0.9004), which is enough to see what '%.3f' rounds away.       *)
(***************************************************************************)
EXTENDS Integers, Sequences, FiniteSets, TLC

VARIABLES
    files,      \* results directory: file name -> serialized bytes
    origin,     \* history: file name -> the arguments of the save that wrote it last
    now,        \* the wall clock read by datetime.now, in minutes
    nsaves,     \* number of save calls made so far
    call,       \* the most recent call: its name and arguments
    ret,        \* what the most recent call returned (None when it raised)
    exc,        \* the exception the most recent call raised, or "none"
    stdout,     \* what the most recent call printed
    cv_res,     \* scikit_cv_result_to_df: the mapping passed in (keys in insertion order)
    drop_splits,\* scikit_cv_result_to_df: the drop_splits argument
    df_pc,      \* scikit_cv_result_to_df: "call" before it ran, "done" after
    df_ret,     \* scikit_cv_result_to_df: the table returned, None if it raised
    df_exc,     \* scikit_cv_result_to_df: the exception raised, or "none"
    truth,      \* balanced_accuracy: the true labels
    pred,       \* balanced_accuracy: the predicted labels
    wts,        \* balanced_accuracy: the sample weights, None before they are computed
    ba_pc,      \* balanced_accuracy: "call", "weighted" or "done"
    ba_ret,     \* balanced_accuracy: the score returned, a fraction <<num, den>>
    tc_pc,      \* timing_curve: the statement to run next
    tc_len,     \* timing_curve: the number of rows of X (and Y)
    train_sizes,\* timing_curve: the train_sizes argument, fractions in tenths
    tc_i,       \* timing_curve: the position of frac in train_sizes
    ests,       \* the estimator objects: 0 is clf, i the clone made in iteration i
    clf_clone,  \* timing_curve: the estimator the name clf_clone is bound to
    split,      \* timing_curve: the row counts of X_train and X_test
    np_seed,    \* the seed NumPy's global generator was last given, None if never
    clk,        \* the processor time time.clock() reads
    st,         \* timing_curve: the local st
    out,        \* timing_curve: the lists train_size, fit_time, pred_time
    tc_log,     \* history: the calls timing_curve has made, in order
    tc_ret      \* timing_curve: the table returned

storeVars == <<files, origin, now, nsaves, call, ret, exc, stdout>>

dfVars == <<cv_res, drop_splits, df_pc, df_ret, df_exc>>

baVars == <<truth, pred, wts, ba_pc, ba_ret>>

tcVars == <<tc_pc, tc_len, train_sizes, tc_i, ests, clf_clone, split, np_seed, clk, st,
            out, tc_log, tc_ret>>

vars == <<storeVars, dfVars, baVars, tcVars>>

\* ------------------------------------------------------------------ bounds

MaxSaves == 2
MaxClock == 1
MaxKeys == 4
MaxRows == 2
MaxSamples == 4
MaxLen == 6
MaxFracs == 2
MaxDur == 1

\* ------------------------------------------------------------------ strings

None == [none |-> TRUE]

\* The characters the file names use, in code-point order.
CharOrder ==
    <<"-", ".", "0", "1", "2", "3", "4", "5", "6", "7", "8", "9",
      "A", "B", "C", "D", "E", "F", "G", "H", "I", "J", "K", "L", "M",
      "N", "O", "P", "Q", "R", "S", "T", "U", "V", "W", "X", "Y", "Z", "_",
      "a", "b", "c", "d", "e", "f", "g", "h", "i", "j", "k", "l", "m",
      "n", "o", "p", "q", "r", "s", "t", "u", "v", "w", "x", "y", "z">>

Chars == {CharOrder[i] : i \in 1..Len(CharOrder)}

Ord == [c \in Chars |-> CHOOSE i \in 1..Len(CharOrder) : CharOrder[i] = c]

Digits == <<"0", "1", "2", "3", "4", "5", "6", "7", "8", "9">>

Min(S) == CHOOSE x \in S : \A y \in S : x <= y

Max(S) == CHOOSE x \in S : \A y \in S : y <= x

\* Python's str < str: the first differing character decides, a proper prefix is smaller.
StrLess(a, b) ==
    LET n == IF Len(a) < Len(b) THEN Len(a) ELSE Len(b)
        d == {k \in 1..n : a[k] # b[k]}
    IN  IF d = {} THEN Len(a) < Len(b)
        ELSE Ord[a[Min(d)]] < Ord[b[Min(d)]]

\* str.startswith
StartsWith(s, p) == Len(p) <= Len(s) /\ SubSeq(s, 1, Len(p)) = p

\* the `in` operator on strings: sub occurs somewhere in s
Contains(sub, s) ==
    \E i \in 0..(Len(s) - Len(sub)) : SubSeq(s, i + 1, i + Len(sub)) = sub

\* decimal rendering of a natural number, no padding
RECURSIVE NatStr(_)
NatStr(n) == IF n < 10 THEN <<Digits[n + 1]>>
             ELSE NatStr(n \div 10) \o <<Digits[(n % 10) + 1]>>

\* decimal rendering of n < 10^w, zero-padded to width w
RECURSIVE Padded(_, _)
Padded(n, w) == IF w = 0 THEN <<>>
                ELSE Padded(n \div 10, w - 1) \o <<Digits[(n % 10) + 1]>>

\* '%.3f' % score: sign, integer part unpadded, a point, three decimals.  The score
\* counts ten-thousandths; the fourth decimal is rounded away (the domains below hold
\* no score whose fourth decimal is 5, where the binary value would decide).
Fmt3Unpadded(score) ==
    LET a == IF score < 0 THEN -score ELSE score
        r == (a + 5) \div 10
    IN  (IF score < 0 THEN <<"-">> ELSE <<>>)
        \o NatStr(r \div 1000) \o <<".">> \o NatStr(r % 1000)

Fmt3(score) ==
    LET a == IF score < 0 THEN -score ELSE score
        r == (a + 5) \div 10
    IN  (IF score < 0 THEN <<"-">> ELSE <<>>)
        \o NatStr(r \div 1000) \o <<".">> \o Padded(r % 1000, 3)

\* datetime.now(tz).isoformat(timespec='minutes', sep='_').replace(':', '-'):
\* date, '_', hour-minute and the zone offset, every field of fixed width.
IsoDate(t) ==
    <<"2", "0", "1", "8", "-", "0", "9", "-", "2", "3", "_", "1", "0", "-">>
    \o Padded(t, 2) \o <<"-", "0", "4", "-", "0", "0">>

PklExt == <<".", "p", "k", "l">>

KSearch == <<"s", "e", "a", "r", "c", "h">>
KLearning == <<"l", "e", "a", "r", "n", "i", "n", "g">>
KTiming == <<"t", "i", "m", "i", "n", "g">>

\* ------------------------------------------------------------------ inputs

\* "cars" is a substring of "cars2"
Datasets == {<<"c", "a", "r", "s">>, <<"c", "a", "r", "s", "2">>}

\* the estimator type of every save, and the estimator types asked for
SavedEstimators == {<<"D", "T">>}
Estimators == {<<"D", "T">>, <<"k", "N", "N">>}

ExtrasSet == {<<>>, <<"v", "2">>}

\* Each save operation varies part of its arguments: the searches vary the dataset
\* and the score, the learning and timing curves vary the extras.
SearchDatasets == Datasets
SearchExtras == {<<>>}
CurveDatasets == {<<"c", "a", "r", "s">>}
CurveExtras == ExtrasSet

\* best_score_ values: 0.0512 and 0.0514 need a zero after the point and both render
\* 0.051; 0.9001 renders 0.900
Scores == {512, 514, 9001}

\* a search object: cv_results_ and best_score_ (the best mean_test_score)
SearchObjs ==
    {[cv_results_ |-> [mean_test_score |-> <<s>>], best_score_ |-> s] : s \in Scores}

\* test_mean arguments of save_learning_curve
TestMeans == {<<1234, 9996>>, <<9004, -2000>>}

\* ------------------------------------------------------------------ serialization

\* joblib.dump / joblib.load: the file holds a pickle of the value
JoblibDump(value) == [pickle |-> value]
JoblibLoad(bytes) == bytes.pickle

\* joblib.load(path): the value pickled in the file, or FileNotFoundError
LoadFile(path) ==
    IF path \in DOMAIN files
    THEN [exc |-> "none", value |-> JoblibLoad(files[path])]
    ELSE [exc |-> "FileNotFoundError", value |-> None]

\* ------------------------------------------------------------------ file names

SearchFilename(dataset, estimator_type, score, date, extras) ==
    KSearch \o <<"_">> \o dataset \o <<"_">> \o estimator_type \o <<"_">>
    \o Fmt3(score) \o <<"_">> \o date \o <<"_">> \o extras

LearningFilenameDateFirst(dataset, learner_type, score, date, extras) ==
    KLearning \o <<"_">> \o dataset \o <<"_">> \o learner_type \o <<"_">>
    \o date \o <<"_">> \o Fmt3(score) \o <<"_">> \o extras

LearningFilename(dataset, learner_type, score, date, extras) ==
    KLearning \o <<"_">> \o dataset \o <<"_">> \o learner_type \o <<"_">>
    \o Fmt3(score) \o <<"_">> \o date \o <<"_">> \o extras

TimingFilename(dataset, estimator_type, date, extras) ==
    KTiming \o <<"_">> \o dataset \o <<"_">> \o estimator_type \o <<"_">>
    \o date \o <<"_">> \o extras

\* Path(results_dir + filename + '.pkl'), relative to results_dir
PklPath(filename) == filename \o PklExt

ResultPathWithExt(filename) == filename \o PklExt

\* results_dir + filename, relative to results_dir
ResultPath(filename) == filename

\* np.max over a sequence
NpMax(seq) == Max({seq[i] : i \in 1..Len(seq)})

\* writing a file: creates it or replaces its content
WriteFile(path, bytes, fields) ==
    /\ files' = [p \in DOMAIN files \cup {path} |-> IF p = path THEN bytes ELSE files[p]]
    /\ origin' = [p \in DOMAIN origin \cup {path} |-> IF p = path THEN fields ELSE origin[p]]

\* ------------------------------------------------------------------ store actions

Tick ==
    /\ now < MaxClock
    /\ now' = now + 1
    /\ UNCHANGED <<files, origin, nsaves, call, ret, exc, stdout>>

SaveSearchResult ==
    /\ nsaves < MaxSaves
    /\ \E search_obj \in SearchObjs, dataset \in SearchDatasets,
          estimator_type \in SavedEstimators, extras \in SearchExtras :
        LET results == search_obj.cv_results_
            score == search_obj.best_score_
            date == IsoDate(now)
            filename == SearchFilename(dataset, estimator_type, score, date, extras)
            path == PklPath(filename)
        IN  /\ WriteFile(path, JoblibDump(results),
                         [kind |-> KSearch, dataset |-> dataset,
                          estimator |-> estimator_type, score |-> score,
                          date |-> date, extras |-> extras, payload |-> results])
            /\ call' = [op |-> "save_search_result", path |-> path, payload |-> results]
    /\ nsaves' = nsaves + 1
    /\ ret' = None
    /\ exc' = "none"
    /\ stdout' = <<>>
    /\ UNCHANGED now

SaveLearningCurve ==
    /\ nsaves < MaxSaves
    /\ \E test_mean \in TestMeans, dataset \in CurveDatasets,
          learner_type \in SavedEstimators, extras \in CurveExtras :
        LET learning_result ==
                [train_sizes |-> <<10, 20>>, train_mean |-> <<9996>>,
                 train_std |-> <<0>>, test_mean |-> test_mean, test_std |-> <<0>>]
            score == NpMax(learning_result.test_mean)
            date == IsoDate(now)
            filename == LearningFilename(dataset, learner_type, score, date, extras)
            path == PklPath(filename)
        IN  /\ WriteFile(path, JoblibDump(learning_result),
                         [kind |-> KLearning, dataset |-> dataset,
                          estimator |-> learner_type, score |-> score,
                          date |-> date, extras |-> extras,
                          payload |-> learning_result])
            /\ call' = [op |-> "save_learning_curve", path |-> path,
                        payload |-> learning_result]
    /\ nsaves' = nsaves + 1
    /\ ret' = None
    /\ exc' = "none"
    /\ stdout' = <<>>
    /\ UNCHANGED now

\* the table handed to save_timing_curve
TimingDfs == {[index |-> <<2>>, fit_time |-> <<1>>, pred_time |-> <<1>>]}

SaveTimingCurve ==
    /\ nsaves < MaxSaves
    /\ \E timing_df \in TimingDfs, dataset \in CurveDatasets,
          estimator_type \in SavedEstimators, extras \in CurveExtras :
        LET date == IsoDate(now)
            filename == TimingFilename(dataset, estimator_type, date, extras)
            path == PklPath(filename)
        IN  /\ WriteFile(path, JoblibDump(timing_df),
                         [kind |-> KTiming, dataset |-> dataset,
                          estimator |-> estimator_type,
                          date |-> date, extras |-> extras, payload |-> timing_df])
            /\ call' = [op |-> "save_timing_curve", path |-> path, payload |-> timing_df]
    /\ nsaves' = nsaves + 1
    /\ ret' = None
    /\ exc' = "none"
    /\ stdout' = <<>>
    /\ UNCHANGED now

ResultsFilesAnyEstimator(kind, dataset, estimator_type) ==
    {fn \in DOMAIN files : StartsWith(fn, kind) /\ Contains(dataset, fn)}

\* [fn for fn in os.listdir(results_dir) if fn.startswith(kind) and
\*  estimator_type in fn and dataset in fn]
ResultsFiles(kind, dataset, estimator_type) ==
    {fn \in DOMAIN files :
        StartsWith(fn, kind) /\ Contains(estimator_type, fn) /\ Contains(dataset, fn)}

\* sorted(results_files)[-1] of a non-empty list of distinct names
SortedLast(results_files) ==
    CHOOSE m \in results_files : \A fn \in results_files : fn = m \/ StrLess(fn, m)

\* the body shared by load_best_search and load_best_learning
LoadBest(op, kind, dataset, estimator_type) ==
    LET results_files == ResultsFiles(kind, dataset, estimator_type)
    IN  /\ call' = [op |-> op, dataset |-> dataset, estimator_type |-> estimator_type]
        /\ IF results_files = {}
           THEN \* sorted([])[-1]: list index out of range, before anything is printed
                /\ exc' = "IndexError"
                /\ ret' = None
                /\ stdout' = <<>>
           ELSE LET best_results_file == SortedLast(results_files)
                    loaded == LoadFile(ResultPath(best_results_file))
                IN  /\ stdout' = <<results_files, best_results_file>>
                    /\ exc' = loaded.exc
                    /\ ret' = loaded.value
        /\ UNCHANGED <<files, origin, now, nsaves>>

LoadBestSearch ==
    \E dataset \in Datasets, estimator_type \in Estimators :
        LoadBest("load_best_search", KSearch, dataset, estimator_type)

LoadBestLearning ==
    \E dataset \in Datasets, estimator_type \in Estimators :
        LoadBest("load_best_learning", KLearning, dataset, estimator_type)

\* a file name no save produces
MissingFile == KSearch \o PklExt

LoadResultByName ==
    /\ \E filename \in DOMAIN files \cup {MissingFile} :
        /\ call' = [op |-> "load_result_by_name", filename |-> filename]
        /\ ret' = LoadFile(ResultPath(filename)).value
        /\ exc' = LoadFile(ResultPath(filename)).exc
    /\ stdout' = <<>>
    /\ UNCHANGED <<files, origin, now, nsaves>>

InitStore ==
    /\ files = <<>>
    /\ origin = <<>>
    /\ now = 0
    /\ nsaves = 0
    /\ call = [op |-> "none"]
    /\ ret = None
    /\ exc = "none"
    /\ stdout = <<>>

\* ------------------------------------------------------------------ scikit_cv_result_to_df

KParamPrefix == <<"p", "a", "r", "a", "m", "_">>
KParams == <<"p", "a", "r", "a", "m", "s">>
KSplit == <<"s", "p", "l", "i", "t">>

\* the keys a search result may hold: two hyperparameters, the list of parameter
\* settings, a mean score and one fold's score
KeyUniverse ==
    {<<"p", "a", "r", "a", "m", "_", "x">>,
     <<"p", "a", "r", "a", "m", "_", "y">>,
     KParams,
     <<"m", "e", "a", "n", "_", "t", "e", "s", "t", "_", "s", "c", "o", "r", "e">>,
     <<"s", "p", "l", "i", "t", "0", "_", "t", "e", "s", "t", "_", "s", "c", "o", "r", "e">>}

ParamValues == {1, 2}

Range(seq) == {seq[i] : i \in 1..Len(seq)}

\* the orders in which a dict can hold up to MaxKeys of the keys, at least one of them
\* a hyperparameter (a search always has one)
KeyOrders ==
    {ks \in UNION {[1..m -> KeyUniverse] : m \in 1..MaxKeys} :
        /\ \A i, j \in 1..Len(ks) : i # j => ks[i] # ks[j]
        /\ \E i \in 1..Len(ks) : StartsWith(ks[i], KParamPrefix)}

\* the value lists of a search result with the given keys and n candidates: any
\* hyperparameter values; every other cell is a number telling its key and row
CvResults(ks, n) ==
    LET pkeys == {k \in Range(ks) : StartsWith(k, KParamPrefix)}
    IN  {[keys |-> ks, rows |-> n,
          values |-> [k \in Range(ks) |->
                        IF k \in pkeys THEN pv[k]
                        ELSE [i \in 1..n |-> 10 * Len(k) + i]]] :
            pv \in [pkeys -> [1..n -> ParamValues]]}

ShorthandFromFive(p) == SubSeq(p, 6, Len(p))

\* p[6:]
Shorthand(p) == SubSeq(p, 7, Len(p))

\* pd.DataFrame(cv_res, columns=columns): the named columns, rows labelled 0..n-1
DataFrame(mapping, columns) ==
    [index_names |-> <<>>,
     index |-> [i \in 1..mapping.rows |-> <<i - 1>>],
     columns |-> columns,
     data |-> [c \in Range(columns) |-> mapping.values[c]]]

\* df.rename(index=str, columns=mapper): row labels become strings, the columns that
\* the mapper names are renamed
Rename(df, mapper) ==
    LET new(c) == IF c \in DOMAIN mapper THEN mapper[c] ELSE c
    IN  [index_names |-> df.index_names,
         index |-> [i \in 1..Len(df.index) |-> <<NatStr(df.index[i][1])>>],
         columns |-> [j \in 1..Len(df.columns) |-> new(df.columns[j])],
         data |-> [c \in {new(d) : d \in Range(df.columns)} |->
                     df.data[CHOOSE d \in Range(df.columns) : new(d) = c]]]

SetIndexFirstOfEach(df, keys) ==
    LET entry(i) == [j \in 1..Len(keys) |-> df.data[keys[j]][i]]
        kept == SelectSeq([i \in 1..Len(df.index) |-> i],
                          LAMBDA i : \A h \in 1..(i - 1) : entry(h) # entry(i))
    IN  [index_names |-> keys,
         index |-> [r \in 1..Len(kept) |-> entry(kept[r])],
         columns |-> SelectSeq(df.columns, LAMBDA c : c \notin Range(keys)),
         data |-> [c \in Range(df.columns) \ Range(keys) |->
                     [r \in 1..Len(kept) |-> df.data[c][kept[r]]]]]

\* df.set_index(keys): the named columns become the levels of the row index and leave
\* the columns; verify_integrity is left False, so repeated index entries are accepted
SetIndex(df, keys) ==
    [index_names |-> keys,
     index |-> [i \in 1..Len(df.index) |-> [j \in 1..Len(keys) |-> df.data[keys[j]][i]]],
     columns |-> SelectSeq(df.columns, LAMBDA c : c \notin Range(keys)),
     data |-> [c \in Range(df.columns) \ Range(keys) |-> df.data[c]]]

\* df.drop(axis=1, labels=labels)
DropColumns(df, labels) ==
    [index_names |-> df.index_names,
     index |-> df.index,
     columns |-> SelectSeq(df.columns, LAMBDA c : c \notin labels),
     data |-> [c \in Range(df.columns) \ labels |-> df.data[c]]]

ScikitCvResultToDf ==
    /\ df_pc = "call"
    /\ LET params == SelectSeq(cv_res.keys, LAMBDA k : StartsWith(k, KParamPrefix))
           params_to_shorthand == [q \in Range(params) |-> Shorthand(q)]
           df1 == DataFrame(cv_res, SelectSeq(cv_res.keys, LAMBDA k : k # KParams))
           df2 == Rename(df1, params_to_shorthand)
           df3 == SetIndex(df2, [j \in 1..Len(params) |-> params_to_shorthand[params[j]]])
           df4 == IF drop_splits
                  THEN DropColumns(df3, {c \in Range(df3.columns) : StartsWith(c, KSplit)})
                  ELSE df3
       IN  /\ df_ret' = df4
           /\ df_exc' = "none"
    /\ df_pc' = "done"
    /\ UNCHANGED <<cv_res, drop_splits>>

InitDf ==
    /\ \E ks \in KeyOrders, n \in 1..MaxRows : cv_res \in CvResults(ks, n)
    /\ drop_splits \in BOOLEAN
    /\ df_pc = "call"
    /\ df_ret = None
    /\ df_exc = "none"

IdleDf ==
    /\ cv_res = None
    /\ drop_splits = FALSE
    /\ df_pc = "idle"
    /\ df_ret = None
    /\ df_exc = "none"

\* ------------------------------------------------------------------ balanced_accuracy

\* Weights and scores are exact fractions <<num, den>> in lowest terms.
RECURSIVE Gcd(_, _)
Gcd(a, b) == IF b = 0 THEN a ELSE Gcd(b, a % b)

Frac(num, den) == <<num \div Gcd(num, den), den \div Gcd(num, den)>>

FracAdd(p, q) == Frac(p[1] * q[2] + q[1] * p[2], p[2] * q[2])

FracDiv(p, q) == Frac(p[1] * q[2], p[2] * q[1])

RECURSIVE FracSum(_, _)
FracSum(seq, picked) ==
    IF picked = {} THEN <<0, 1>>
    ELSE LET i == CHOOSE j \in picked : TRUE
         IN  FracAdd(seq[i], FracSum(seq, picked \ {i}))

Classes == {0, 1, 2}

ComputeSampleWeightUniform(y) == [i \in 1..Len(y) |-> <<1, 1>>]

\* compute_sample_weight('balanced', y): n_samples / (n_classes * count of the class)
ComputeSampleWeight(y) ==
    LET n_samples == Len(y)
        n_classes == Cardinality(Range(y))
        bincount(c) == Cardinality({i \in 1..Len(y) : y[i] = c})
    IN  [i \in 1..Len(y) |-> Frac(n_samples, n_classes * bincount(y[i]))]

\* accuracy_score(y_true, y_pred, sample_weight=w): the weighted mean of y_true == y_pred
AccuracyScore(y_true, y_pred, sample_weight) ==
    FracDiv(FracSum(sample_weight, {i \in 1..Len(y_true) : y_true[i] = y_pred[i]}),
            FracSum(sample_weight, 1..Len(y_true)))

BalancedWeights ==
    /\ ba_pc = "call"
    /\ wts' = ComputeSampleWeight(truth)
    /\ ba_pc' = "weighted"
    /\ UNCHANGED <<truth, pred, ba_ret>>

BalancedScore ==
    /\ ba_pc = "weighted"
    /\ ba_ret' = AccuracyScore(truth, pred, wts)
    /\ ba_pc' = "done"
    /\ UNCHANGED <<truth, pred, wts>>

\* ten labels, nine of one class and one of another
ImbalancedTruths ==
    {t \in [1..10 -> {0, 1}] :
        Cardinality({i \in 1..10 : t[i] = 0}) \in {1, 9}}

InitBa ==
    /\ \/ \E n \in 1..MaxSamples :
            /\ truth \in [1..n -> Classes]
            /\ pred \in [1..n -> Classes]
       \/ /\ truth \in ImbalancedTruths
          /\ pred \in [1..10 -> {0, 1}]
    /\ wts = None
    /\ ba_pc = "call"
    /\ ba_ret = None

IdleBa ==
    /\ truth = <<>>
    /\ pred = <<>>
    /\ wts = None
    /\ ba_pc = "idle"
    /\ ba_ret = None

\* ------------------------------------------------------------------ timing_curve

\* np.random.seed(55) and train_test_split(..., random_state=1)
FitSeed == 55
SplitRandomState == 1

\* fractions are counted in tenths: 1 is 0.1, 5 is 0.5, 7 is 0.7 (with fewer than
\* ten rows the product with the row count is computed exactly in floating point
\* wherever it is a whole number)
Fractions == {1, 5, 7}

TrainTestSplitAsTrainFraction(n_samples, frac) ==
    LET n_train == (frac * n_samples + 9) \div 10
    IN  [train |-> n_train, test |-> n_samples - n_train]

\* train_test_split(X, Y, test_size=frac, random_state=1): the test part takes
\* ceil(frac * n_samples) rows and the training part the rest
TrainTestSplit(n_samples, frac) ==
    LET n_test == (frac * n_samples + 9) \div 10
    IN  [train |-> n_samples - n_test, test |-> n_test]

SameEstimator(est) == est

\* clone(clf): a new estimator with the same parameters that has not been fit
CloneOf(est) == [fitted |-> FALSE, nfit |-> 0, npredict |-> 0]

Logged(event) == tc_log' = Append(tc_log, event)

\* line 107: take the next fraction, or leave the loop
TcFor ==
    /\ tc_pc = "for"
    /\ IF tc_i < Len(train_sizes)
       THEN tc_i' = tc_i + 1 /\ tc_pc' = "clone"
       ELSE tc_i' = tc_i /\ tc_pc' = "frame"
    /\ UNCHANGED <<tc_len, train_sizes, ests, clf_clone, split, np_seed, clk, st, out,
                   tc_log, tc_ret>>

\* line 108
TcClone ==
    /\ tc_pc = "clone"
    /\ ests' = [e \in DOMAIN ests \cup {tc_i} |->
                   IF e = tc_i THEN CloneOf(ests[0]) ELSE ests[e]]
    /\ clf_clone' = tc_i
    /\ Logged([ev |-> "clone", of |-> 0, new |-> tc_i])
    /\ tc_pc' = "split"
    /\ UNCHANGED <<tc_len, train_sizes, tc_i, split, np_seed, clk, st, out, tc_ret>>

\* line 109
TcSplit ==
    /\ tc_pc = "split"
    /\ split' = TrainTestSplit(tc_len, train_sizes[tc_i])
    /\ Logged([ev |-> "split", test_size |-> train_sizes[tc_i],
               random_state |-> SplitRandomState])
    /\ tc_pc' = "train_size"
    /\ UNCHANGED <<tc_len, train_sizes, tc_i, ests, clf_clone, np_seed, clk, st, out,
                   tc_ret>>

\* line 110
TcTrainSize ==
    /\ tc_pc = "train_size"
    /\ out' = [out EXCEPT !.train_size = Append(@, split.train)]
    /\ tc_pc' = "st_fit"
    /\ UNCHANGED <<tc_len, train_sizes, tc_i, ests, clf_clone, split, np_seed, clk, st,
                   tc_log, tc_ret>>

\* line 111
TcStartFit ==
    /\ tc_pc = "st_fit"
    /\ st' = clk
    /\ Logged([ev |-> "clock"])
    /\ tc_pc' = "seed"
    /\ UNCHANGED <<tc_len, train_sizes, tc_i, ests, clf_clone, split, np_seed, clk, out,
                   tc_ret>>

\* line 112
TcSeed ==
    /\ tc_pc = "seed"
    /\ np_seed' = FitSeed
    /\ Logged([ev |-> "seed", value |-> FitSeed])
    /\ tc_pc' = "fit"
    /\ UNCHANGED <<tc_len, train_sizes, tc_i, ests, clf_clone, split, clk, st, out,
                   tc_ret>>

\* line 113: the fit takes some processor time, or raises
TcFit ==
    /\ tc_pc = "fit"
    /\ Logged([ev |-> "fit", obj |-> clf_clone, rows |-> split.train])
    /\ \/ \E dur \in 1..MaxDur :
            /\ ests' = [ests EXCEPT ![clf_clone] =
                           [fitted |-> TRUE, nfit |-> @.nfit + 1, npredict |-> @.npredict]]
            /\ clk' = clk + dur
            /\ tc_pc' = "fit_time"
       \/ /\ tc_pc' = "raised"
          /\ UNCHANGED <<ests, clk>>
    /\ UNCHANGED <<tc_len, train_sizes, tc_i, clf_clone, split, np_seed, st, out, tc_ret>>

\* line 114
TcFitTime ==
    /\ tc_pc = "fit_time"
    /\ out' = [out EXCEPT !.fit_time = Append(@, clk - st)]
    /\ Logged([ev |-> "clock"])
    /\ tc_pc' = "st_pred"
    /\ UNCHANGED <<tc_len, train_sizes, tc_i, ests, clf_clone, split, np_seed, clk, st,
                   tc_ret>>

\* line 115
TcStartPredict ==
    /\ tc_pc = "st_pred"
    /\ st' = clk
    /\ Logged([ev |-> "clock"])
    /\ tc_pc' = "predict"
    /\ UNCHANGED <<tc_len, train_sizes, tc_i, ests, clf_clone, split, np_seed, clk, out,
                   tc_ret>>

\* line 116: the prediction takes some processor time, or raises
TcPredict ==
    /\ tc_pc = "predict"
    /\ Logged([ev |-> "predict", obj |-> clf_clone, rows |-> split.test])
    /\ \/ \E dur \in 1..MaxDur :
            /\ ests' = [ests EXCEPT ![clf_clone].npredict = @ + 1]
            /\ clk' = clk + dur
            /\ tc_pc' = "pred_time"
       \/ /\ tc_pc' = "raised"
          /\ UNCHANGED <<ests, clk>>
    /\ UNCHANGED <<tc_len, train_sizes, tc_i, clf_clone, split, np_seed, st, out, tc_ret>>

\* line 117
TcPredTime ==
    /\ tc_pc = "pred_time"
    /\ out' = [out EXCEPT !.pred_time = Append(@, clk - st)]
    /\ Logged([ev |-> "clock"])
    /\ tc_pc' = "for"
    /\ UNCHANGED <<tc_len, train_sizes, tc_i, ests, clf_clone, split, np_seed, clk, st,
                   tc_ret>>

\* lines 118-122: the table, with a time per sample as the pair <<time, train_size>>
TcFrame ==
    /\ tc_pc = "frame"
    /\ tc_ret' =
          [index |-> out.train_size,
           fit_time |-> out.fit_time,
           pred_time |-> out.pred_time,
           fit_time_per_samp |->
               [r \in 1..Len(out.train_size) |-> <<out.fit_time[r], out.train_size[r]>>],
           pred_time_per_samp |->
               [r \in 1..Len(out.train_size) |-> <<out.pred_time[r], out.train_size[r]>>]]
    /\ tc_pc' = "done"
    /\ UNCHANGED <<tc_len, train_sizes, tc_i, ests, clf_clone, split, np_seed, clk, st,
                   out, tc_log>>

\* a call with data that every fraction splits into a non-empty training part; clf
\* may or may not have been fit by the caller
InitTc ==
    /\ tc_pc = "for"
    /\ tc_len \in 2..MaxLen
    /\ train_sizes \in UNION {[1..m -> Fractions] : m \in 1..MaxFracs}
    /\ \A j \in 1..Len(train_sizes) : TrainTestSplit(tc_len, train_sizes[j]).train >= 1
    /\ tc_i = 0
    /\ ests \in {[e \in {0} |-> [fitted |-> f, nfit |-> 0, npredict |-> 0]] :
                    f \in BOOLEAN}
    /\ clf_clone = None
    /\ split = None
    /\ np_seed = None
    /\ clk = 0
    /\ st = 0
    /\ out = [train_size |-> <<>>, fit_time |-> <<>>, pred_time |-> <<>>]
    /\ tc_log = <<>>
    /\ tc_ret = None

IdleTc ==
    /\ tc_pc = "idle"
    /\ tc_len = 0
    /\ train_sizes = <<>>
    /\ tc_i = 0
    /\ ests = <<>>
    /\ clf_clone = None
    /\ split = None
    /\ np_seed = None
    /\ clk = 0
    /\ st = 0
    /\ out = None
    /\ tc_log = <<>>
    /\ tc_ret = None

\* ------------------------------------------------------------------ specifications

\* the result store
Init == InitStore /\ IdleDf /\ IdleBa /\ IdleTc

Next ==
    \/ Tick /\ UNCHANGED <<dfVars, baVars, tcVars>>
    \/ SaveSearchResult /\ UNCHANGED <<dfVars, baVars, tcVars>>
    \/ SaveLearningCurve /\ UNCHANGED <<dfVars, baVars, tcVars>>
    \/ SaveTimingCurve /\ UNCHANGED <<dfVars, baVars, tcVars>>
    \/ LoadBestSearch /\ UNCHANGED <<dfVars, baVars, tcVars>>
    \/ LoadBestLearning /\ UNCHANGED <<dfVars, baVars, tcVars>>
    \/ LoadResultByName /\ UNCHANGED <<dfVars, baVars, tcVars>>

Spec == Init /\ [][Next]_vars

\* scikit_cv_result_to_df on every bounded search result
IdleStore == InitStore

InitDfSpec == InitDf /\ IdleStore /\ IdleBa /\ IdleTc

NextDf == ScikitCvResultToDf /\ UNCHANGED <<storeVars, baVars, tcVars>>

SpecDf == InitDfSpec /\ [][NextDf]_vars

\* balanced_accuracy on every bounded pair of label lists
InitBaSpec == InitBa /\ IdleStore /\ IdleDf /\ IdleTc

NextBa ==
    \/ BalancedWeights /\ UNCHANGED <<storeVars, dfVars, tcVars>>
    \/ BalancedScore /\ UNCHANGED <<storeVars, dfVars, tcVars>>

SpecBa == InitBaSpec /\ [][NextBa]_vars

\* timing_curve on every bounded input
InitTcSpec == InitTc /\ IdleStore /\ IdleDf /\ IdleBa

NextTc ==
    \/ TcFor /\ UNCHANGED <<storeVars, dfVars, baVars>>
    \/ TcClone /\ UNCHANGED <<storeVars, dfVars, baVars>>
    \/ TcSplit /\ UNCHANGED <<storeVars, dfVars, baVars>>
    \/ TcTrainSize /\ UNCHANGED <<storeVars, dfVars, baVars>>
    \/ TcStartFit /\ UNCHANGED <<storeVars, dfVars, baVars>>
    \/ TcSeed /\ UNCHANGED <<storeVars, dfVars, baVars>>
    \/ TcFit /\ UNCHANGED <<storeVars, dfVars, baVars>>
    \/ TcFitTime /\ UNCHANGED <<storeVars, dfVars, baVars>>
    \/ TcStartPredict /\ UNCHANGED <<storeVars, dfVars, baVars>>
    \/ TcPredict /\ UNCHANGED <<storeVars, dfVars, baVars>>
    \/ TcPredTime /\ UNCHANGED <<storeVars, dfVars, baVars>>
    \/ TcFrame /\ UNCHANGED <<storeVars, dfVars, baVars>>

SpecTc == InitTcSpec /\ [][NextTc]_vars

\* ------------------------------------------------------------------ result store properties

LoadBestOps == {"load_best_search", "load_best_learning"}

KindOf(op) == IF op = "load_best_search" THEN KSearch ELSE KLearning

\* the filter in words: the name starts with the kind and contains the
\* dataset and the estimator type
MatchesFilter(fn, kind, dataset, estimator_type) ==
    /\ Len(kind) <= Len(fn) /\ \A k \in 1..Len(kind) : fn[k] = kind[k]
    /\ \E i \in 1..(Len(fn) - Len(dataset) + 1) :
            \A k \in 1..Len(dataset) : fn[i + k - 1] = dataset[k]
    /\ \E i \in 1..(Len(fn) - Len(estimator_type) + 1) :
            \A k \in 1..Len(estimator_type) : fn[i + k - 1] = estimator_type[k]

Matching == {fn \in DOMAIN files :
                MatchesFilter(fn, KindOf(call.op), call.dataset, call.estimator_type)}

Scored == {fn \in DOMAIN origin : origin[fn].kind \in {KSearch, KLearning}}

\* C1: when the artifacts in the directory have pairwise distinct scores, load_best
\* returns the payload of the matching file with the numerically highest score.
C1_LoadBestReturnsHighestScore ==
    (/\ call.op \in LoadBestOps
     /\ exc = "none"
     /\ \A f, g \in Scored : f # g => origin[f].score # origin[g].score)
    => \E best \in Matching :
          /\ \A fn \in Matching : origin[fn].score <= origin[best].score
          /\ ret = origin[best].payload

\* C2: load_result_by_name with the name of a file a save produced returns the payload
\* of the save that last wrote that file.
C2_SaveLoadRoundTrip ==
    (call.op = "load_result_by_name" /\ call.filename \in DOMAIN origin)
    => (exc = "none" /\ ret = origin[call.filename].payload)

C2_Witness ==
    /\ call.op = "load_result_by_name"
    /\ call.filename \in DOMAIN origin
    /\ Cardinality(DOMAIN files) = 2
    /\ ret = origin[call.filename].payload
    /\ ret # None

\* the exceptions that say a file was not found
NotFoundErrors == {"FileNotFoundError"}

\* C3 as stated: when no file matches, load_best fails with a not-found error and
\* returns nothing.
C3_NoMatchRaisesNotFound ==
    (call.op \in LoadBestOps /\ Matching = {})
    => (exc \in NotFoundErrors /\ ret = None)

\* C3 amended: a load_best call that finds no matching file raises IndexError (the
\* last element of an empty list), prints nothing, returns nothing and leaves the
\* results directory as it was.
C3_NoMatchRaisesIndexError ==
    [][(call'.op \in LoadBestOps /\ call' # call)
       => /\ files' = files
          /\ (Matching' = {}) <=> (exc' = "IndexError")
          /\ (Matching' = {}) => (ret' = None /\ stdout' = <<>>)]_vars

C3_Witness ==
    /\ call.op \in LoadBestOps
    /\ files # <<>>
    /\ Matching = {}
    /\ exc = "IndexError"
    /\ ret = None

InUnitInterval(score) == 0 <= score /\ score < 10000

IsDigit(c) == \E i \in 1..10 : Digits[i] = c

\* the number of thousandths a rendering d.ddd stands for
Thousandths(str) ==
    LET v(c) == (CHOOSE i \in 1..10 : Digits[i] = c) - 1
    IN  1000 * v(str[1]) + 100 * v(str[3]) + 10 * v(str[4]) + v(str[5])

\* the score field of a search or learning file name: what follows kind_dataset_estimator_
\* up to the next underscore
ScoreField(fn) ==
    LET o == origin[fn]
        start == Len(o.kind) + Len(o.dataset) + Len(o.estimator) + 4
        stop == Min({k \in start..Len(fn) : fn[k] = "_"}) - 1
    IN  SubSeq(fn, start, stop)

IsThreeDecimal(str) ==
    /\ Len(str) = 5
    /\ str[2] = "."
    /\ \A k \in {1, 3, 4, 5} : IsDigit(str[k])

\* C4: of two search files, or two learning files, with the same dataset and estimator
\* type and scores in [0, 1), each carries its score with exactly three decimals, and
\* the one with the larger three-decimal score has the later name in string order.
C4_ScoreOrderIsNameOrder ==
    \A f, g \in Scored :
        (/\ origin[f].kind = origin[g].kind
         /\ origin[f].dataset = origin[g].dataset
         /\ origin[f].estimator = origin[g].estimator
         /\ InUnitInterval(origin[f].score)
         /\ InUnitInterval(origin[g].score))
        => /\ IsThreeDecimal(ScoreField(f))
           /\ IsThreeDecimal(ScoreField(g))
           /\ 10 * Thousandths(ScoreField(f)) - 5 <= origin[f].score
           /\ origin[f].score < 10 * Thousandths(ScoreField(f)) + 5
           /\ (Thousandths(ScoreField(f)) < Thousandths(ScoreField(g)) => StrLess(f, g))

\* two learning files whose scores and dates (and extras) are ordered oppositely
C4_Witness ==
    \E f, g \in Scored :
        /\ origin[f].kind = origin[g].kind
        /\ origin[f].dataset = origin[g].dataset
        /\ origin[f].estimator = origin[g].estimator
        /\ InUnitInterval(origin[f].score) /\ InUnitInterval(origin[g].score)
        /\ Thousandths(ScoreField(f)) < Thousandths(ScoreField(g))
        /\ StrLess(origin[g].date, origin[f].date)
        /\ StrLess(origin[g].extras, origin[f].extras)
        /\ StrLess(f, g)

RECURSIVE JoinFields(_)
JoinFields(fields) ==
    IF Len(fields) = 1 THEN fields[1]
    ELSE fields[1] \o <<"_">> \o JoinFields(Tail(fields))

\* a signed decimal with three digits after the point
IsScoreText(str) ==
    LET body == IF Len(str) > 0 /\ str[1] = "-" THEN Tail(str) ELSE str
        n == Len(body)
    IN  /\ n >= 5
        /\ body[n - 3] = "."
        /\ \A k \in (1..n) \ {n - 3} : IsDigit(body[k])

\* the name is kind_dataset_estimator_score_date_extras.pkl for some score text
HasSixFields(fn) ==
    LET o == origin[fn]
        head == JoinFields(<<o.kind, o.dataset, o.estimator>>) \o <<"_">>
        tail == <<"_">> \o JoinFields(<<o.date, o.extras>>) \o PklExt
        score == SubSeq(fn, Len(head) + 1, Len(fn) - Len(tail))
    IN  /\ IsScoreText(score)
        /\ fn = head \o score \o tail

\* C5 as stated: every file a save wrote, of any of the three kinds, is named
\* kind_dataset_estimator_score_date_extras.pkl.
C5_EveryNameHasSixFields ==
    \A fn \in DOMAIN files : HasSixFields(fn)

\* C5 amended: search and learning files are named
\* kind_dataset_estimator_score_date_extras.pkl with the score in '%.3f' form; timing
\* files are named timing_dataset_estimator_date_extras.pkl and carry no score.
C5_NamesByKind ==
    \A fn \in DOMAIN files :
        LET o == origin[fn]
        IN  IF o.kind = KTiming
            THEN /\ fn = JoinFields(<<o.kind, o.dataset, o.estimator, o.date, o.extras>>)
                         \o PklExt
                 /\ ~HasSixFields(fn)
            ELSE /\ HasSixFields(fn)
                 /\ fn = JoinFields(<<o.kind, o.dataset, o.estimator, Fmt3(o.score),
                                      o.date, o.extras>>) \o PklExt

C5_Witness ==
    /\ \E fn \in DOMAIN files : origin[fn].kind = KTiming
    /\ \E fn \in DOMAIN files : origin[fn].kind = KLearning /\ origin[fn].extras # <<>>

\* ------------------------------------------------------------------ reshaper properties

KParamX == <<"p", "a", "r", "a", "m", "_", "x">>
KParamY == <<"p", "a", "r", "a", "m", "_", "y">>
KMeanTestScore ==
    <<"m", "e", "a", "n", "_", "t", "e", "s", "t", "_", "s", "c", "o", "r", "e">>
KSplit0TestScore ==
    <<"s", "p", "l", "i", "t", "0", "_", "t", "e", "s", "t", "_", "s", "c", "o", "r", "e">>

HasPrefix(k, prefix) ==
    Len(prefix) <= Len(k) /\ \A i \in 1..Len(prefix) : k[i] = prefix[i]

\* the 'param_' keys of the input, in the order they appear
ParamKeys == SelectSeq(cv_res.keys, LAMBDA k : HasPrefix(k, KParamPrefix))

\* C6: the table returned has one index level per 'param_' key, named by the key
\* without the prefix, in the order of the keys; its columns are the keys that are
\* neither 'param_' keys nor 'params', without the 'split' ones when drop_splits is
\* set and with them otherwise; param_x, param_y, mean_test_score, split0_test_score
\* with drop_splits give index (x, y) and the one column mean_test_score.
C6_IndexLevelsAndColumns ==
    df_pc = "done" =>
        /\ df_exc = "none"
        /\ Len(df_ret.index_names) = Len(ParamKeys)
        /\ \A j \in 1..Len(ParamKeys) :
               KParamPrefix \o df_ret.index_names[j] = ParamKeys[j]
        /\ Range(df_ret.columns) =
               {k \in Range(cv_res.keys) :
                   /\ ~HasPrefix(k, KParamPrefix)
                   /\ k # KParams
                   /\ drop_splits => ~HasPrefix(k, KSplit)}
        /\ Cardinality(Range(df_ret.columns)) = Len(df_ret.columns)
        /\ \A c \in Range(df_ret.columns) : df_ret.data[c] = cv_res.values[c]
        /\ \A i \in 1..cv_res.rows : \A j \in 1..Len(ParamKeys) :
               df_ret.index[i][j] = cv_res.values[ParamKeys[j]][i]
        /\ (/\ cv_res.keys = <<KParamX, KParamY, KMeanTestScore, KSplit0TestScore>>
            /\ drop_splits)
           => (/\ df_ret.index_names = <<(<<"x">>), (<<"y">>)>>
               /\ df_ret.columns = <<KMeanTestScore>>)

C6_Witness ==
    /\ df_pc = "done"
    /\ cv_res.keys = <<KParamX, KParamY, KMeanTestScore, KSplit0TestScore>>
    /\ drop_splits
    /\ df_ret.index_names = <<(<<"x">>), (<<"y">>)>>
    /\ df_ret.columns = <<KMeanTestScore>>

\* two rows of the input carry the same combination of hyperparameter values
RepeatedCombination ==
    \E i, j \in 1..cv_res.rows :
        /\ i # j
        /\ \A k \in Range(ParamKeys) : cv_res.values[k][i] = cv_res.values[k][j]

\* C7 as stated: with a repeated combination the call fails and returns no table.
C7_RepeatedCombinationFails ==
    (df_pc = "done" /\ RepeatedCombination) => (df_exc # "none" /\ df_ret = None)

\* C7 amended: with a repeated combination the call does not fail; it returns a table
\* with one row per input row, whose index holds the repeated combination more than
\* once.
C7_RepeatedCombinationKept ==
    (df_pc = "done" /\ RepeatedCombination) =>
        /\ df_exc = "none"
        /\ Len(df_ret.index) = cv_res.rows
        /\ \E i, j \in 1..Len(df_ret.index) : i # j /\ df_ret.index[i] = df_ret.index[j]

C7_Witness ==
    /\ df_pc = "done"
    /\ RepeatedCombination
    /\ Len(ParamKeys) = 2
    /\ df_exc = "none"
    /\ Len(df_ret.index) = 2
    /\ df_ret.index[1] = df_ret.index[2]

\* ------------------------------------------------------------------ balanced_accuracy properties

CountOf(c) == Cardinality({i \in 1..Len(truth) : truth[i] = c})

CorrectOf(c) == Cardinality({i \in 1..Len(truth) : truth[i] = c /\ pred[i] = c})

RECURSIVE RecallSum(_)
RecallSum(cs) ==
    IF cs = {} THEN <<0, 1>>
    ELSE LET c == CHOOSE d \in cs : TRUE
             rest == RecallSum(cs \ {c})
             num == CorrectOf(c) * rest[2] + rest[1] * CountOf(c)
             den == CountOf(c) * rest[2]
         IN  <<num, den>>

\* C8: every class present in truth gets the same total weight, the score is the
\* mean over those classes of the fraction of the class predicted correctly, and with
\* a 9 : 1 class ratio, the minority all right and the majority all wrong, it is 1/2.
C8_EqualClassWeighting ==
    /\ ba_pc \in {"weighted", "done"} =>
        \A c, d \in Range(truth) :
            FracSum(wts, {i \in 1..Len(truth) : truth[i] = c})
                = FracSum(wts, {i \in 1..Len(truth) : truth[i] = d})
    /\ ba_pc = "done" =>
        /\ ba_ret[1] * RecallSum(Range(truth))[2] * Cardinality(Range(truth))
               = RecallSum(Range(truth))[1] * ba_ret[2]
        /\ \A maj, min \in Range(truth) :
              (/\ Range(truth) = {maj, min}
               /\ CountOf(maj) = 9 * CountOf(min)
               /\ CorrectOf(min) = CountOf(min)
               /\ CorrectOf(maj) = 0)
              => ba_ret = <<1, 2>>

C8_Witness ==
    /\ ba_pc = "done"
    /\ Len(truth) = 10
    /\ \E maj, min \in Range(truth) :
          /\ CountOf(maj) = 9 /\ CountOf(min) = 1
          /\ CorrectOf(min) = 1 /\ CorrectOf(maj) = 0
    /\ ba_ret = <<1, 2>>

\* ------------------------------------------------------------------ timing_curve properties

\* half of n rounded to a whole number, ties to the even neighbour or upwards
RoundedHalves(n) ==
    IF n % 2 = 0 THEN {n \div 2}
    ELSE {(n + 1) \div 2, IF ((n - 1) \div 2) % 2 = 0 THEN (n - 1) \div 2 ELSE (n + 1) \div 2}

\* C9 as stated: with train_sizes = [0.5] the table has one row and its training size
\* is round(len(X) * 0.5), for odd lengths too.
C9_TrainSizeIsRoundedHalf ==
    (tc_pc = "done" /\ train_sizes = <<5>>) =>
        /\ Len(tc_ret.index) = 1
        /\ tc_ret.index[1] \in RoundedHalves(tc_len)

\* C9 amended: with train_sizes = [0.5] the table has one row; its training size is
\* len(X) - ceil(len(X) * 0.5), that is len(X) / 2 rounded down, which is
\* round(len(X) * 0.5) for every even length; fit_time_per_samp is fit_time / train size.
C9_TrainSizeIsHalfRoundedDown ==
    (tc_pc = "done" /\ train_sizes = <<5>>) =>
        /\ Len(tc_ret.index) = 1
        /\ 2 * tc_ret.index[1] <= tc_len
        /\ tc_len <= 2 * tc_ret.index[1] + 1
        /\ (tc_len % 2 = 0) => (tc_ret.index[1] \in RoundedHalves(tc_len))
        /\ tc_ret.fit_time_per_samp = <<(<<tc_ret.fit_time[1], tc_ret.index[1]>>)>>

C9_Witness ==
    /\ tc_pc = "done"
    /\ train_sizes = <<5>>
    /\ tc_len = 3
    /\ tc_ret.index = <<1>>

\* the calls other than clock readings
MainCalls == SelectSeq(tc_log, LAMBDA e : e.ev # "clock")

IterationPattern == <<"clone", "split", "seed", "fit", "predict">>

FitCalls(e) == {j \in 1..Len(tc_log) : tc_log[j].ev = "fit" /\ tc_log[j].obj = e}

PredictCalls(e) == {j \in 1..Len(tc_log) : tc_log[j].ev = "predict" /\ tc_log[j].obj = e}

\* C10: every iteration clones clf, splits, seeds with 55, fits the clone and predicts
\* with the same clone, in this order; the seed call comes right before the fit; a
\* clone is unfit until its one fit, is used in its own iteration only, and clf itself
\* is never fit nor used to predict.
C10_IterationOrder ==
    /\ \A j \in 1..Len(MainCalls) :
          LET e == MainCalls[j]
              it == ((j - 1) \div 5) + 1
          IN  /\ e.ev = IterationPattern[((j - 1) % 5) + 1]
              /\ e.ev = "clone" => (e.of = 0 /\ e.new = it)
              /\ e.ev = "split" => e.test_size = train_sizes[it]
              /\ e.ev = "seed" => e.value = 55
              /\ e.ev \in {"fit", "predict"} => e.obj = it
    /\ \A j \in 1..Len(tc_log) :
          tc_log[j].ev = "fit" =>
              (j > 1 /\ tc_log[j - 1].ev = "seed" /\ tc_log[j - 1].value = 55)
    /\ \A e \in DOMAIN ests \ {0} :
          /\ Cardinality(FitCalls(e)) <= 1
          /\ ests[e].nfit <= Cardinality(FitCalls(e))
          /\ ests[e].fitted => ests[e].nfit = 1
          /\ ests[e].npredict > 0 => ests[e].fitted
    /\ tc_pc \notin {"idle"} =>
          /\ ests[0].nfit = 0
          /\ ests[0].npredict = 0
          /\ FitCalls(0) = {} /\ PredictCalls(0) = {}
    /\ tc_pc = "done" =>
          /\ DOMAIN ests = 0..Len(train_sizes)
          /\ \A e \in 1..Len(train_sizes) : ests[e].nfit = 1 /\ ests[e].npredict = 1

\* a finished call of two iterations on a classifier the caller had already fit
C10_Witness ==
    /\ tc_pc = "done"
    /\ Len(train_sizes) = 2
    /\ ests[0].fitted
    /\ Len(MainCalls) = 10
    /\ ests[2].nfit = 1

====
